---- MODULE Spec2Model ----
(***************************************************************************)
(* A model of the Discogs API access layer of discogs_sync                 *)
(* (custom_components/discogs_sync/api_client.py): the request limiter,    *)
(* the request executor with its rate-limit bookkeeping, and the           *)
(* pagination walks.                                                       *)
(*                                                                         *)
(* Time is the wall clock time.time() counted in ticks of 1/TicksPerSecond *)
(* seconds.  The clock never runs backwards and time.sleep(d) returns no   *)
(* earlier than d after the moment the caller read the clock.  The program *)
(* only subtracts times, so the model keeps them relative to a window of   *)
(* MaxTime ticks: once now = MaxTime, a tick moves every recorded time one *)
(* tick into the past, and 0 stands for "MaxTime ticks ago or earlier".    *)
(*                                                                         *)
(* A walk counts its pages up to MaxPage; page = MaxPage + 1 stands for    *)
(* "a page beyond MaxPage", where the walk goes on but the model no longer *)
(* records its items and its requests.                                     *)
(*                                                                         *)
(* A Python dict read through .get(key, default) is a record whose fields  *)
(* are options [has, val]: has = FALSE is an absent key.                   *)
(***************************************************************************)
EXTENDS Integers, Sequences, FiniteSets, TLC

VARIABLES
    now,                 \* time.time(), in ticks
    _last_request_time,  \* client -> self._last_request_time
    rate_limit_info,     \* client -> self.rate_limit_info
    client,              \* caller -> the client instance it calls
    pc,                  \* caller -> where it stands in its operation
    op,                  \* caller -> the operation it runs
    current_time,        \* caller -> _wait_for_rate_limit's current_time, while it sleeps
    wait_time,           \* caller -> _wait_for_rate_limit's wait_time (0: no sleep)
    page,                \* caller -> the walk's page
    random_page,         \* caller -> get_random_record's random_page (0: not drawn)
    all_items,           \* caller -> the walk's all_items
    ret,                 \* caller -> the value the operation returned
    error,               \* caller -> the exception the operation raised
    resp,                \* caller -> status and headers of the response to its request,
                         \*           and whether response.json() parsed its body
    start,               \* caller -> the start time its request recorded
    log,                 \* caller -> the params of the requests of its operation
    seen,                \* caller -> the data of the responses of its operation
    coordinator_data,    \* coordinator.data: api_status, user_folders and the selection
    entry_data,          \* coordinator.config_entry.data: the selection persisted
    _last_service_calls, \* services._last_service_calls: service type -> time
    served,              \* the download service call handled last and its response
    format_arg,          \* the record_data argument of a _format_string call
    formatted            \* the value that call returned

\* The state of the host around the client: the coordinator, the services and
\* the entities.
host == <<coordinator_data, entry_data, _last_service_calls, served, format_arg, formatted>>

vars ==
    <<now, _last_request_time, rate_limit_info, client, pc, op, current_time,
      wait_time, page, random_page, all_items, ret, error, resp, start, log, seen,
      coordinator_data, entry_data, _last_service_calls, served, format_arg,
      formatted>>

(***************************************************************************)
(* Bounds of the model.                                                    *)
(***************************************************************************)
TicksPerSecond == 1
MaxTime == 4
MaxPage == 3
MaxPerPage == 2

Callers == {1, 2}
Clients == {1, 2}

(***************************************************************************)
(* dict.get and the values read through it.                                *)
(***************************************************************************)
Some(v) == [has |-> TRUE, val |-> v]
NoInt == [has |-> FALSE, val |-> 0]
NoStr == [has |-> FALSE, val |-> ""]
NoSeq == [has |-> FALSE, val |-> <<>>]

Get(field, default) ==
    IF field.has THEN field.val ELSE default

(***************************************************************************)
(* DiscogsAPIClient.__init__                                               *)
(***************************************************************************)
_min_request_interval == 1 * TicksPerSecond

InitialRateLimitInfo ==
    [total |-> 60, used |-> 0, remaining |-> 60, exceeded |-> FALSE,
     last_updated |-> NoInt]

(***************************************************************************)
(* _wait_for_rate_limit: the time to sleep, 0 when it does not sleep.      *)
(***************************************************************************)
WaitTime_NeverSleeps(cur, last) ==
    0

WaitTime_TwoIntervals(cur, last) ==
    LET time_since_last == cur - last
    IN  IF time_since_last < _min_request_interval
        THEN 2 * _min_request_interval - time_since_last
        ELSE 0

WaitTime(cur, last) ==
    LET time_since_last == cur - last
    IN  IF time_since_last < _min_request_interval
        THEN _min_request_interval - time_since_last
        ELSE 0

(***************************************************************************)
(* Response headers.  int() accepts the decimal strings and raises         *)
(* ValueError on anything else.                                            *)
(***************************************************************************)
HeaderStrings == {"0", "60", "abc"}
HeaderValues == {NoStr} \cup {Some(s) : s \in HeaderStrings}
AllHeaders == [total : HeaderValues, used : HeaderValues, remaining : HeaderValues]
NoHeaders == [total |-> NoStr, used |-> NoStr, remaining |-> NoStr]

IsDecimal(s) == s \in {"0", "60"}
int(s) == CASE s = "0" -> 0 [] s = "60" -> 60

HeaderTexts(headers) ==
    [total |-> Get(headers.total, "60"),
     used |-> Get(headers.used, "0"),
     remaining |-> Get(headers.remaining, "60")]

(***************************************************************************)
(* _update_rate_limit_info: the dict literal is evaluated first; a         *)
(* ValueError of any int() leaves rate_limit_info.update uncalled.         *)
(***************************************************************************)
\* Variants: a failed parse still stamps last_updated; the fields are written
\* one by one up to the first int() that fails; a failed parse still writes
\* exceeded.
_update_rate_limit_info_Stamps(info, headers, status_code, t) ==
    LET text == HeaderTexts(headers)
    IN  IF IsDecimal(text.total) /\ IsDecimal(text.used) /\ IsDecimal(text.remaining)
        THEN [total |-> int(text.total),
              used |-> int(text.used),
              remaining |-> int(text.remaining),
              last_updated |-> Some(t),
              exceeded |-> (status_code = 429)]
        ELSE [info EXCEPT !.last_updated = Some(t)]

_update_rate_limit_info_Partial(info, headers, status_code, t) ==
    LET text == HeaderTexts(headers)
    IN  IF ~IsDecimal(text.total)
        THEN info
        ELSE IF ~IsDecimal(text.used)
        THEN [info EXCEPT !.total = int(text.total)]
        ELSE IF ~IsDecimal(text.remaining)
        THEN [info EXCEPT !.total = int(text.total), !.used = int(text.used)]
        ELSE [total |-> int(text.total),
              used |-> int(text.used),
              remaining |-> int(text.remaining),
              last_updated |-> Some(t),
              exceeded |-> (status_code = 429)]

_update_rate_limit_info_ClearsOnFailure(info, headers, status_code, t) ==
    LET text == HeaderTexts(headers)
    IN  IF IsDecimal(text.total) /\ IsDecimal(text.used) /\ IsDecimal(text.remaining)
        THEN [total |-> int(text.total),
              used |-> int(text.used),
              remaining |-> int(text.remaining),
              last_updated |-> Some(t),
              exceeded |-> (status_code = 429)]
        ELSE [info EXCEPT !.exceeded = (status_code = 429)]

_update_rate_limit_info(info, headers, status_code, t) ==
    LET text == HeaderTexts(headers)
    IN  IF IsDecimal(text.total) /\ IsDecimal(text.used) /\ IsDecimal(text.remaining)
        THEN [total |-> int(text.total),
              used |-> int(text.used),
              remaining |-> int(text.remaining),
              last_updated |-> Some(t),
              exceeded |-> (status_code = 429)]
        ELSE info

(***************************************************************************)
(* The 429 branch of _make_request's HTTPError handler.                    *)
(***************************************************************************)
MarkExceeded_FlagOnly(info) ==
    [info EXCEPT !.exceeded = TRUE]

MarkExceeded(info) ==
    [info EXCEPT !.exceeded = TRUE, !.remaining = 0]

Statuses == {200, 429, 500}
NoResponse == [status |-> 0, headers |-> NoHeaders, json |-> FALSE]

(***************************************************************************)
(* Response bodies.  json = FALSE is a body response.json() cannot parse.  *)
(* The data of a page p carries up to MaxPerPage items; every second item  *)
(* has no basic_information.                                               *)
(***************************************************************************)
RawItem(p, i) ==
    [id |-> 10 * p + i,
     basic_information |-> IF i % 2 = 1 THEN Some([title |-> 10 * p + i]) ELSE
                           [has |-> FALSE, val |-> [title |-> 0]]]

EmptyDict == [title |-> 0]

ItemArray(p, n) == [i \in 1..n |-> RawItem(p, i)]

ItemFields(p) == {NoSeq} \cup {Some(ItemArray(p, n)) : n \in 0..MaxPerPage}
\* pagination.pages as the server declares it with page p: missing, one less
\* than p, p itself, or one more.
PagesFields(p) == {NoInt} \cup {Some(n) : n \in (p - 1)..(p + 1)}

EmptyData == [items |-> NoSeq, pages |-> NoInt, other |-> FALSE]
OtherData == [items |-> NoSeq, pages |-> NoInt, other |-> TRUE]

PageData(p) ==
    {[items |-> i, pages |-> g, other |-> FALSE] : i \in ItemFields(p), g \in PagesFields(p)}
        \cup {OtherData}

Bodies(p) == [json : {TRUE}, data : PageData(p)] \cup {[json |-> FALSE, data |-> EmptyData]}
PlainBodies == {[json |-> j, data |-> OtherData] : j \in BOOLEAN}

\* Python's truth value of the parsed body: None and {} are false.
Truthy(data) == data.items.has \/ data.pages.has \/ data.other

(***************************************************************************)
(* The body of the while loop of _paginated_fetch and get_user_list_items, *)
(* after _make_request returned data: the walk's next state.               *)
(***************************************************************************)
WalkOps == {"_paginated_fetch", "get_user_list_items"}
per_page == 100

Extract_Reversed(o, items) ==
    [i \in 1..Len(items) |-> items[Len(items) + 1 - i]]

Extract(o, items) ==
    IF o = "_paginated_fetch"
    THEN [i \in 1..Len(items) |-> Get(items[i].basic_information, EmptyDict)]
    ELSE items

\* Variant: the walk goes on while page <= pages.
WalkStep_OneMore(o, pg, acc, data) ==
    IF ~Truthy(data)
    THEN [done |-> TRUE, page |-> pg, all_items |-> acc]
    ELSE LET items == Get(data.items, <<>>)
         IN  IF items = <<>>
             THEN [done |-> TRUE, page |-> pg, all_items |-> acc]
             ELSE IF pg > Get(data.pages, 1)
                  THEN [done |-> TRUE, page |-> pg, all_items |-> acc \o Extract(o, items)]
                  ELSE [done |-> FALSE, page |-> pg + 1,
                        all_items |-> acc \o Extract(o, items)]

WalkStep(o, pg, acc, data) ==
    IF ~Truthy(data)
    THEN [done |-> TRUE, page |-> pg, all_items |-> acc]
    ELSE LET items == Get(data.items, <<>>)
         IN  IF items = <<>>
             THEN [done |-> TRUE, page |-> pg, all_items |-> acc]
             ELSE IF pg >= Get(data.pages, 1)
                  THEN [done |-> TRUE, page |-> pg, all_items |-> acc \o Extract(o, items)]
                  ELSE [done |-> FALSE, page |-> pg + 1,
                        all_items |-> acc \o Extract(o, items)]

(***************************************************************************)
(* The documents the single-request operations read: the parsed body of a  *)
(* folder (count), of a page of releases (releases) and of the service     *)
(* root (hello, api_version, documentation_url, statistics).               *)
(***************************************************************************)
None == <<>>

NoDict == [has |-> FALSE, val |-> [releases |-> NoInt]]
EmptyDoc ==
    [count |-> NoInt, releases |-> NoSeq, hello |-> NoStr, api_version |-> NoStr,
     documentation_url |-> NoStr, statistics |-> NoDict, other |-> FALSE]

\* Python's truth value of a parsed document: None and {} are false.
TruthyDoc(data) ==
    \/ data.count.has \/ data.releases.has \/ data.hello.has \/ data.api_version.has
    \/ data.documentation_url.has \/ data.statistics.has \/ data.other

\* The counts a folder reports: none, an empty folder, one page, a full page,
\* one item more than a page, several pages.
Counts == {0, 1, 100, 101, 250}
FolderDocs ==
    {EmptyDoc, [EmptyDoc EXCEPT !.other = TRUE]}
        \cup {[EmptyDoc EXCEPT !.count = Some(n), !.other = TRUE] : n \in Counts}

\* basic_information of a release, and the releases the server holds.
EmptyBasic ==
    [artists |-> NoSeq, title |-> NoStr, labels |-> NoSeq, cover_image |-> NoStr,
     year |-> NoInt, formats |-> NoSeq]
NoBasic == [has |-> FALSE, val |-> EmptyBasic]

KindOfBlue ==
    [basic_information |-> Some(
        [artists |-> Some(<<[name |-> Some("Miles Davis")], [name |-> Some("Bill Evans")]>>),
         title |-> Some("Kind of Blue"),
         labels |-> Some(<<[catno |-> Some("CL 1355"), name |-> Some("Columbia")]>>),
         cover_image |-> Some("kob.jpg"),
         year |-> Some(1959),
         formats |-> Some(<<[name |-> Some("Vinyl"),
                             descriptions |-> Some(<<"LP", "Album">>)]>>)])]
Bare == [basic_information |-> NoBasic]
Untitled ==
    [basic_information |-> Some(
        [EmptyBasic EXCEPT !.artists = Some(<<>>), !.labels = Some(<<>>),
                           !.formats = Some(<<>>), !.year = Some(0)])]
Nameless ==
    [basic_information |-> Some(
        [artists |-> Some(<<[name |-> NoStr]>>),
         title |-> Some("Blue Train"),
         labels |-> Some(<<[catno |-> NoStr, name |-> Some("Blue Note")]>>),
         cover_image |-> NoStr,
         year |-> Some(1958),
         formats |-> Some(<<[name |-> Some("CD"), descriptions |-> NoSeq]>>)])]
Promo ==
    [basic_information |-> Some(
        [artists |-> Some(<<[name |-> Some("Nina Simone")]>>),
         title |-> NoStr,
         labels |-> NoSeq,
         cover_image |-> Some("promo.jpg"),
         year |-> NoInt,
         formats |-> Some(<<[name |-> NoStr, descriptions |-> Some(<<"Promo">>)]>>)])]

Collection == <<KindOfBlue, Bare, Untitled, Nameless, Promo>>

\* The releases of page p of the folder, as the server sends them.
PageOfReleases(p) ==
    CASE p = 1 -> <<KindOfBlue, Bare>>
      [] p = 2 -> <<Untitled, Nameless>>
      [] OTHER -> <<Promo>>

ReleaseDocs(p) ==
    {EmptyDoc, [EmptyDoc EXCEPT !.other = TRUE],
     [EmptyDoc EXCEPT !.releases = Some(<<>>)],
     [EmptyDoc EXCEPT !.releases = Some(PageOfReleases(p))]}

EmptyStats == [releases |-> NoInt]
RootDocs ==
    {EmptyDoc, [EmptyDoc EXCEPT !.other = TRUE],
     [EmptyDoc EXCEPT !.hello = Some("")],
     [EmptyDoc EXCEPT !.hello = Some("Welcome to the Discogs API.")],
     [EmptyDoc EXCEPT !.hello = Some("Welcome to the Discogs API."),
                      !.api_version = Some("v2"),
                      !.statistics = Some([releases |-> Some(250)])]}

(***************************************************************************)
(* _format_string.                                                         *)
(***************************************************************************)
RECURSIVE Join(_, _)
Join(sep, strings) ==
    IF strings = <<>> THEN ""
    ELSE IF Len(strings) = 1 THEN strings[1]
    ELSE strings[1] \o sep \o Join(sep, Tail(strings))

EmptyFormat == [name |-> NoStr, descriptions |-> NoSeq]

\* The arguments of _format_string: no formats key, or up to MaxFormats
\* entries, each with or without a name (which may be empty) and tags.
MaxFormats == 2
FormatEntries ==
    [name : {NoStr, Some(""), Some("Vinyl"), Some("CD")},
     descriptions : {NoSeq, Some(<<>>), Some(<<"LP">>), Some(<<"LP", "Album">>)}]
FormatLists == UNION {[1..n -> FormatEntries] : n \in 0..MaxFormats}
RecordDatas ==
    {[EmptyBasic EXCEPT !.formats = f] : f \in {NoSeq} \cup {Some(l) : l \in FormatLists}}

\* Variant: the last entry of the list is the one rendered.
_format_string_LastEntry(record_data) ==
    LET formats == Get(record_data.formats, <<EmptyFormat>>)
    IN  IF formats = <<>>
        THEN NoStr
        ELSE LET first_format == formats[Len(formats)]
                 format_name == first_format.name
                 descriptions == Get(first_format.descriptions, <<>>)
             IN  IF format_name.has /\ format_name.val # ""
                 THEN IF descriptions # <<>>
                      THEN Some(format_name.val \o " (" \o Join(", ", descriptions) \o ")")
                      ELSE Some(format_name.val)
                 ELSE NoStr

_format_string(record_data) ==
    LET formats == Get(record_data.formats, <<EmptyFormat>>)
    IN  IF formats = <<>>
        THEN NoStr
        ELSE LET first_format == formats[1]
                 format_name == first_format.name
                 descriptions == Get(first_format.descriptions, <<>>)
             IN  IF format_name.has /\ format_name.val # ""
                 THEN IF descriptions # <<>>
                      THEN Some(format_name.val \o " (" \o Join(", ", descriptions) \o ")")
                      ELSE Some(format_name.val)
                 ELSE NoStr

(***************************************************************************)
(* get_random_record: the count of the folder, the pages it has, the       *)
(* releases random.choice can return and the record built of one.          *)
(***************************************************************************)
\* Variant: a folder without a count is taken to hold one item.
TotalItems_DefaultOne(folder_data) ==
    Get(folder_data.count, 1)

TotalItems(folder_data) ==
    Get(folder_data.count, 0)

\* Variant: the quotient plus one instead of the rounded-up quotient.
TotalPages_PlusOne(total_items) ==
    total_items \div per_page + 1

TotalPages(total_items) ==
    (total_items + per_page - 1) \div per_page

\* Variant: the release is drawn from the whole collection.
Choice_OfCollection(releases) ==
    {Collection[i] : i \in 1..Len(Collection)}

Choice(releases) ==
    {releases[i] : i \in 1..Len(releases)}

FormatRecord(random_release) ==
    LET basic_info == Get(random_release.basic_information, EmptyBasic)
        artists == Get(basic_info.artists, <<>>)
        artist_name ==
            IF artists # <<>> THEN Get(artists[1].name, "Unknown Artist")
            ELSE "Unknown Artist"
        title == Get(basic_info.title, "Unknown Title")
        labels == Get(basic_info.labels, <<>>)
    IN  [title |-> artist_name \o " - " \o title,
         data |->
             [cat_no |-> IF labels # <<>> THEN labels[1].catno ELSE NoStr,
              cover_image |-> basic_info.cover_image,
              format |-> _format_string(basic_info),
              label |-> IF labels # <<>> THEN labels[1].name ELSE NoStr,
              released |-> basic_info.year]]

(***************************************************************************)
(* get_collection_count and get_api_status: the value built of the data.   *)
(***************************************************************************)
CollectionCount(data) ==
    IF TruthyDoc(data) /\ data.count.has THEN <<data.count.val>> ELSE None

Unavailable(e) ==
    [available |-> FALSE, hello |-> NoStr, api_version |-> NoStr,
     documentation_url |-> NoStr, statistics |-> NoDict, error |-> e]

\* Variant: any hello key counts, an empty one too.
ApiStatus_AnyHello(response) ==
    IF TruthyDoc(response) /\ response.hello.has
    THEN [available |-> TRUE,
          hello |-> response.hello,
          api_version |-> response.api_version,
          documentation_url |-> response.documentation_url,
          statistics |-> Some(Get(response.statistics, EmptyStats)),
          error |-> NoStr]
    ELSE Unavailable(NoStr)

ApiStatus(response) ==
    IF TruthyDoc(response) /\ response.hello.has /\ response.hello.val # ""
    THEN [available |-> TRUE,
          hello |-> response.hello,
          api_version |-> response.api_version,
          documentation_url |-> response.documentation_url,
          statistics |-> Some(Get(response.statistics, EmptyStats)),
          error |-> NoStr]
    ELSE Unavailable(NoStr)

\* The public operations by shape: one request (get_collection_count), two
\* requests (get_random_record), a walk (_paginated_fetch, the body of
\* get_full_collection and get_full_wantlist), and the probe that catches
\* (get_api_status).
PublicOps ==
    {"get_collection_count", "get_random_record", "_paginated_fetch", "get_api_status"}

(***************************************************************************)
(* coordinator.data and config_entry.data as the entities read and write   *)
(* them: the stored result of get_api_status, the folder listing and the   *)
(* random-record folder selection.                                         *)
(***************************************************************************)
NoStatus == [has |-> FALSE, val |-> Unavailable(NoStr)]

\* The folders of a listing: a folder may lack its id or its name, and two
\* folders may have the same name.
MaxFolders == 2
FolderEntries ==
    {[id |-> Some(0), name |-> Some("All")],
     [id |-> Some(1), name |-> Some("Jazz")],
     [id |-> Some(2), name |-> Some("Jazz")],
     [id |-> NoInt, name |-> Some("Rock")],
     [id |-> Some(3), name |-> NoStr]}
FolderLists == UNION {[1..n -> FolderEntries] : n \in 0..MaxFolders}

\* data["user_folders"]: missing, without a folders key, or with a listing.
NoFolders == [has |-> FALSE, val |-> [folders |-> NoSeq]]
UserFolders ==
    {NoFolders, Some([folders |-> NoSeq])}
        \cup {Some([folders |-> Some(l)]) : l \in FolderLists}

Options == {"All", "Jazz", "Rock", "Blues"}

NoSelection ==
    [random_record_folder_selection |-> NoStr, random_record_folder_id |-> NoInt]

(***************************************************************************)
(* services.py: the download services.                                     *)
(***************************************************************************)
ServiceTypes == {"collection", "wantlist", "user_list"}
_min_service_interval == 1 * TicksPerSecond

\* datetime.min, the last call of a service type never called.
datetime_min == 0 - _min_service_interval

\* A response of a service: {"error": text} or {service_type: data}.
NoReply == [error |-> NoStr, key |-> "", data |-> NoSeq]
ErrorReply(text) == [error |-> Some(text), key |-> "", data |-> NoSeq]
DataReply(service_type, items) == [error |-> NoStr, key |-> service_type, data |-> Some(items)]

\* The call handled last: its type, the time since the last call of its type
\* as line 67 computed it (counted up to _min_service_interval), whether it
\* passed the check, whether it came to its fetch, what the fetch raised, what
\* left the handler as an exception, and the response returned.  calls flips
\* with every call handled.
NotServed ==
    [calls |-> 0, service_type |-> "", since |-> 0, accepted |-> FALSE,
     fetched |-> FALSE, raised |-> "", escaped |-> "", response |-> NoReply]

\* What the coordinator's bulk fetch does: it raises, or it returns None, an
\* empty list or a list of items.
FetchErrors == {"HTTPError", "ConnectionError", "JSONDecodeError"}
FetchOutcomes ==
    {[raised |-> e, data |-> NoSeq] : e \in FetchErrors}
        \cup {[raised |-> "", data |-> d] : d \in {NoSeq, Some(<<>>), Some(<<1>>), Some(<<1, 2>>)}}

\* call.data of a service call, and whether save_json succeeds.
CallDatas == [list_id : {NoInt, Some(7)}, download : BOOLEAN, save_ok : BOOLEAN]

\* f"{time_to_wait:.1f}" of a time in ticks; exact while a tick is a multiple
\* of a tenth of a second.
OneDecimal(ticks) ==
    LET tenths == (ticks * 10) \div TicksPerSecond
    IN  ToString(tenths \div 10) \o "." \o ToString(tenths % 10)

(***************************************************************************)
(* The state after construction: two clients, and two callers that call   *)
(* the clients of uses; in Init both call client 1, in InitTwo each its    *)
(* own.                                                                    *)
(***************************************************************************)
Constructed(uses) ==
    /\ now = _min_request_interval
    /\ _last_request_time = [k \in Clients |-> 0]
    /\ rate_limit_info = [k \in Clients |-> InitialRateLimitInfo]
    /\ client = uses
    /\ pc = [c \in Callers |-> "idle"]
    /\ op = [c \in Callers |-> ""]
    /\ current_time = [c \in Callers |-> 0]
    /\ wait_time = [c \in Callers |-> 0]
    /\ page = [c \in Callers |-> 1]
    /\ random_page = [c \in Callers |-> 0]
    /\ all_items = [c \in Callers |-> <<>>]
    /\ ret = [c \in Callers |-> <<>>]
    /\ error = [c \in Callers |-> ""]
    /\ resp = [c \in Callers |-> NoResponse]
    /\ start = [c \in Callers |-> 0]
    /\ log = [c \in Callers |-> <<>>]
    /\ seen = [c \in Callers |-> <<>>]

\* The host after setup: no probe result stored, the folder listing
\* user_folders, nothing selected, no service called, and the argument rd of
\* a _format_string call.
Installed(user_folders, rd) ==
    /\ coordinator_data =
           [api_status |-> NoStatus, user_folders |-> user_folders,
            random_record_folder_selection |-> NoStr,
            random_record_folder_id |-> NoInt]
    /\ entry_data = NoSelection
    /\ _last_service_calls = [t \in ServiceTypes |-> NoInt]
    /\ served = NotServed
    /\ format_arg = rd
    /\ formatted = [done |-> FALSE, value |-> NoStr]

Init == Constructed([c \in Callers |-> 1]) /\ Installed(NoFolders, EmptyBasic)
InitTwo == Constructed([c \in Callers |-> c]) /\ Installed(NoFolders, EmptyBasic)

(***************************************************************************)
(* The clock.                                                              *)
(***************************************************************************)
Earlier(t) == IF t > 0 THEN t - 1 ELSE 0

Tick ==
    /\ IF now < MaxTime
       THEN /\ now' = now + 1
            /\ UNCHANGED <<_last_request_time, rate_limit_info, current_time, start,
                           _last_service_calls>>
       ELSE /\ now' = now
            /\ _last_request_time' = [k \in Clients |-> Earlier(_last_request_time[k])]
            /\ rate_limit_info' =
                   [k \in Clients |->
                       [rate_limit_info[k] EXCEPT !.last_updated.val = Earlier(@)]]
            /\ current_time' = [c \in Callers |-> Earlier(current_time[c])]
            /\ start' = [c \in Callers |-> Earlier(start[c])]
            /\ _last_service_calls' =
                   [t \in ServiceTypes |->
                       [_last_service_calls[t] EXCEPT !.val = Earlier(@)]]
    /\ UNCHANGED <<client, pc, op, wait_time, page, random_page, all_items, ret, error,
                   resp, log, seen, coordinator_data, entry_data, served, format_arg,
                   formatted>>

(***************************************************************************)
(* A caller enters an operation of its client.                             *)
(***************************************************************************)
Call(c, o) ==
    /\ pc[c] = "idle"
    /\ pc' = [pc EXCEPT ![c] = "wait"]
    /\ op' = [op EXCEPT ![c] = o]
    /\ page' = [page EXCEPT ![c] = 1]
    /\ all_items' = [all_items EXCEPT ![c] = <<>>]
    /\ UNCHANGED <<now, _last_request_time, rate_limit_info, client, current_time,
                   wait_time, random_page, ret, error, resp, start, log, seen>>
    /\ UNCHANGED host

(***************************************************************************)
(* _wait_for_rate_limit, lines 35-39: read the clock and the last request  *)
(* time, decide whether to sleep.                                          *)
(***************************************************************************)
\* Variant: the limiter holds the request back while the quota is exceeded.
WaitForRateLimit_HoldsOnExceeded(c) ==
    /\ pc[c] = "wait"
    /\ ~rate_limit_info[client[c]].exceeded
    /\ wait_time' = [wait_time EXCEPT ![c] = WaitTime(now, _last_request_time[client[c]])]
    /\ current_time' = [current_time EXCEPT ![c] = IF wait_time'[c] > 0 THEN now ELSE 0]
    /\ pc' = [pc EXCEPT ![c] = IF wait_time'[c] > 0 THEN "sleep" ELSE "stamp"]
    /\ UNCHANGED <<now, _last_request_time, rate_limit_info, client, op, page,
                   random_page, all_items, ret, error, resp, start, log, seen>>
    /\ UNCHANGED host

WaitForRateLimit(c) ==
    /\ pc[c] = "wait"
    /\ wait_time' = [wait_time EXCEPT ![c] = WaitTime(now, _last_request_time[client[c]])]
    /\ current_time' = [current_time EXCEPT ![c] = IF wait_time'[c] > 0 THEN now ELSE 0]
    /\ pc' = [pc EXCEPT ![c] = IF wait_time'[c] > 0 THEN "sleep" ELSE "stamp"]
    /\ UNCHANGED <<now, _last_request_time, rate_limit_info, client, op, page,
                   random_page, all_items, ret, error, resp, start, log, seen>>
    /\ UNCHANGED host

(***************************************************************************)
(* time.sleep(wait_time) returns.                                          *)
(***************************************************************************)
Sleep(c) ==
    /\ pc[c] = "sleep"
    /\ now >= current_time[c] + wait_time[c]
    /\ pc' = [pc EXCEPT ![c] = "stamp"]
    /\ current_time' = [current_time EXCEPT ![c] = 0]
    /\ UNCHANGED <<now, _last_request_time, rate_limit_info, client, op, wait_time,
                   page, random_page, all_items, ret, error, resp, start, log, seen>>
    /\ UNCHANGED host

(***************************************************************************)
(* _make_request, line 46, and the start of requests.get.                  *)
(***************************************************************************)
Beyond(c) == page[c] > MaxPage

Params(c) ==
    IF op[c] \in WalkOps
    THEN [page |-> page[c], per_page |-> per_page]
    ELSE IF op[c] = "get_random_record" /\ random_page[c] > 0
    THEN [page |-> random_page[c], per_page |-> per_page]
    ELSE [page |-> 0, per_page |-> 0]

\* Variant: the time of the last request is one value of the class.
Stamp_Shared(c) ==
    /\ pc[c] = "stamp"
    /\ _last_request_time' = [k \in Clients |-> now]
    /\ start' = [start EXCEPT ![c] = now]
    /\ log' = [log EXCEPT ![c] = IF Beyond(c) THEN @ ELSE Append(@, Params(c))]
    /\ resp' = [resp EXCEPT ![c] = NoResponse]
    /\ pc' = [pc EXCEPT ![c] = "get"]
    /\ UNCHANGED <<now, rate_limit_info, client, op, current_time, wait_time, page,
                   random_page, all_items, ret, error, seen>>
    /\ UNCHANGED host

Stamp(c) ==
    /\ pc[c] = "stamp"
    /\ _last_request_time' = [_last_request_time EXCEPT ![client[c]] = now]
    /\ start' = [start EXCEPT ![c] = now]
    /\ log' = [log EXCEPT ![c] = IF Beyond(c) THEN @ ELSE Append(@, Params(c))]
    /\ resp' = [resp EXCEPT ![c] = NoResponse]
    /\ pc' = [pc EXCEPT ![c] = "get"]
    /\ UNCHANGED <<now, rate_limit_info, client, op, current_time, wait_time, page,
                   random_page, all_items, ret, error, seen>>
    /\ UNCHANGED host

(***************************************************************************)
(* An exception e leaves _make_request.  get_api_status catches it and     *)
(* returns the unavailable status (lines 293-295); every other operation   *)
(* calls _make_request outside any try, and e reaches its caller.          *)
(***************************************************************************)
\* Variant: get_api_status lets the exception through.
Raises_Uncaught(c, e) ==
    /\ pc' = [pc EXCEPT ![c] = "raised"]
    /\ error' = [error EXCEPT ![c] = e]
    /\ UNCHANGED ret

\* Variant: a walk that fails returns the items of the pages before.
Raises_ReturnsPartial(c, e) ==
    IF op[c] = "get_api_status"
    THEN /\ pc' = [pc EXCEPT ![c] = "returned"]
         /\ ret' = [ret EXCEPT ![c] = <<Unavailable(Some(e))>>]
         /\ UNCHANGED error
    ELSE IF op[c] \in WalkOps
    THEN /\ pc' = [pc EXCEPT ![c] = "returned"]
         /\ ret' = [ret EXCEPT ![c] = all_items[c]]
         /\ UNCHANGED error
    ELSE /\ pc' = [pc EXCEPT ![c] = "raised"]
         /\ error' = [error EXCEPT ![c] = e]
         /\ UNCHANGED ret

Raises(c, e) ==
    IF op[c] = "get_api_status"
    THEN /\ pc' = [pc EXCEPT ![c] = "returned"]
         /\ ret' = [ret EXCEPT ![c] = <<Unavailable(Some(e))>>]
         /\ UNCHANGED error
    ELSE /\ pc' = [pc EXCEPT ![c] = "raised"]
         /\ error' = [error EXCEPT ![c] = e]
         /\ UNCHANGED ret

(***************************************************************************)
(* get_random_record after _make_request returned data: lines 168-178      *)
(* after the probe (random_page not drawn yet), lines 184-205 after the    *)
(* page.                                                                   *)
(***************************************************************************)
RandomRecordStep(c, data) ==
    /\ seen' = [seen EXCEPT ![c] = Append(@, data)]
    /\ IF random_page[c] = 0
       THEN IF ~TruthyDoc(data) \/ TotalItems(data) = 0
            THEN /\ pc' = [pc EXCEPT ![c] = "returned"]
                 /\ ret' = [ret EXCEPT ![c] = None]
                 /\ UNCHANGED random_page
            ELSE /\ \E p \in 1..TotalPages(TotalItems(data)) :
                        random_page' = [random_page EXCEPT ![c] = p]
                 /\ pc' = [pc EXCEPT ![c] = "wait"]
                 /\ UNCHANGED ret
       ELSE /\ pc' = [pc EXCEPT ![c] = "returned"]
            /\ IF ~TruthyDoc(data) \/ Get(data.releases, <<>>) = <<>>
               THEN ret' = [ret EXCEPT ![c] = None]
               ELSE \E random_release \in Choice(data.releases.val) :
                        ret' = [ret EXCEPT ![c] = <<FormatRecord(random_release)>>]
            /\ UNCHANGED random_page

(***************************************************************************)
(* requests.get returns a response: lines 50-52 and what the operation     *)
(* does with the data _make_request returns.  A 429 leaves the caller in   *)
(* the HTTPError handler.                                                  *)
(***************************************************************************)
Respond(c, headers, status_code, body) ==
    /\ pc[c] = "get"
    /\ resp' = [resp EXCEPT ![c] = [status |-> status_code, headers |-> headers,
                                    json |-> (status_code < 400 /\ body.json)]]
    /\ rate_limit_info' =
           [rate_limit_info EXCEPT ![client[c]] =
               _update_rate_limit_info(@, headers, status_code, now)]
    /\ IF status_code = 429
       THEN /\ pc' = [pc EXCEPT ![c] = "http429"]
            /\ UNCHANGED <<page, random_page, all_items, ret, error, seen>>
       ELSE IF status_code >= 400
       THEN /\ Raises(c, "HTTPError")
            /\ UNCHANGED <<page, random_page, all_items, seen>>
       ELSE IF ~body.json
       THEN /\ Raises(c, "JSONDecodeError")
            /\ UNCHANGED <<page, random_page, all_items, seen>>
       ELSE IF op[c] \in WalkOps
       THEN LET w == WalkStep(op[c], page[c], all_items[c], body.data)
            IN  /\ seen' = [seen EXCEPT ![c] = IF Beyond(c) THEN @ ELSE Append(@, body.data)]
                /\ page' = [page EXCEPT ![c] = IF w.page > MaxPage THEN MaxPage + 1 ELSE w.page]
                /\ all_items' = [all_items EXCEPT ![c] = IF Beyond(c) THEN @ ELSE w.all_items]
                /\ pc' = [pc EXCEPT ![c] = IF w.done THEN "returned" ELSE "wait"]
                /\ ret' = [ret EXCEPT ![c] = IF w.done THEN all_items'[c] ELSE <<>>]
                /\ UNCHANGED <<random_page, error>>
       ELSE IF op[c] = "get_random_record"
       THEN /\ RandomRecordStep(c, body.data)
            /\ UNCHANGED <<page, all_items, error>>
       ELSE /\ pc' = [pc EXCEPT ![c] = "returned"]
            /\ ret' = [ret EXCEPT ![c] =
                          CASE op[c] = "get_collection_count" -> CollectionCount(body.data)
                            [] op[c] = "get_api_status" -> <<ApiStatus(body.data)>>
                            [] OTHER -> <<body.data>>]
            /\ seen' = [seen EXCEPT ![c] =
                           IF op[c] = "_make_request" THEN @ ELSE Append(@, body.data)]
            /\ UNCHANGED <<page, random_page, all_items, error>>
    /\ UNCHANGED <<now, _last_request_time, client, op, current_time, wait_time,
                   start, log>>
    /\ UNCHANGED host

(***************************************************************************)
(* requests.get raises (timeout, connection error): lines 59-61.           *)
(***************************************************************************)
\* Variant: the request is sent again after a transport failure.
TransportFail_Retries(c) ==
    /\ pc[c] = "get"
    /\ pc' = [pc EXCEPT ![c] = "wait"]
    /\ UNCHANGED <<now, _last_request_time, rate_limit_info, client, op, current_time,
                   wait_time, page, random_page, all_items, ret, error, resp, start, log,
                   seen>>
    /\ UNCHANGED host

\* Variant: a transport failure counts as an update of the quota record.
TransportFail_MarksUpdated(c) ==
    /\ pc[c] = "get"
    /\ Raises(c, "ConnectionError")
    /\ rate_limit_info' =
           [rate_limit_info EXCEPT ![client[c]].last_updated = Some(now)]
    /\ UNCHANGED <<now, _last_request_time, client, op, current_time,
                   wait_time, page, random_page, all_items, resp, start, log, seen>>
    /\ UNCHANGED host

TransportFail(c) ==
    /\ pc[c] = "get"
    /\ Raises(c, "ConnectionError")
    /\ UNCHANGED <<now, _last_request_time, rate_limit_info, client, op, current_time,
                   wait_time, page, random_page, all_items, resp, start, log, seen>>
    /\ UNCHANGED host

(***************************************************************************)
(* The HTTPError handler of a 429, lines 53-58.                            *)
(***************************************************************************)
Handle429(c) ==
    /\ pc[c] = "http429"
    /\ rate_limit_info' =
           [rate_limit_info EXCEPT ![client[c]] = MarkExceeded(@)]
    /\ Raises(c, "HTTPError")
    /\ UNCHANGED <<now, _last_request_time, client, op, current_time, wait_time, page,
                   random_page, all_items, resp, start, log, seen>>
    /\ UNCHANGED host

(***************************************************************************)
(* The caller takes the result; its locals are gone.                       *)
(***************************************************************************)
Finish(c) ==
    /\ pc[c] \in {"returned", "raised"}
    /\ pc' = [pc EXCEPT ![c] = "idle"]
    /\ op' = [op EXCEPT ![c] = ""]
    /\ current_time' = [current_time EXCEPT ![c] = 0]
    /\ wait_time' = [wait_time EXCEPT ![c] = 0]
    /\ page' = [page EXCEPT ![c] = 1]
    /\ random_page' = [random_page EXCEPT ![c] = 0]
    /\ all_items' = [all_items EXCEPT ![c] = <<>>]
    /\ ret' = [ret EXCEPT ![c] = <<>>]
    /\ error' = [error EXCEPT ![c] = ""]
    /\ resp' = [resp EXCEPT ![c] = NoResponse]
    /\ start' = [start EXCEPT ![c] = 0]
    /\ log' = [log EXCEPT ![c] = <<>>]
    /\ seen' = [seen EXCEPT ![c] = <<>>]
    /\ UNCHANGED <<now, _last_request_time, rate_limit_info, client>>
    /\ UNCHANGED host

(***************************************************************************)
(* services._handle_download_service.  The handler runs on the event loop  *)
(* and reaches its first await after line 71, so the check and the write   *)
(* of _last_service_calls are one step; the outcome of the coordinator's   *)
(* fetch and of save_json are the inputs of the step.                      *)
(***************************************************************************)
client_state ==
    <<now, _last_request_time, rate_limit_info, client, pc, op, current_time,
      wait_time, page, random_page, all_items, ret, error, resp, start, log, seen>>

\* Variant: one time of the last call for all the service types.
LastCall_AnyType(calls, service_type) ==
    LET times == {IF calls[t].has THEN calls[t].val ELSE datetime_min : t \in ServiceTypes}
    IN  CHOOSE m \in times : \A n \in times : n <= m

\* Line 65.
LastCall(calls, service_type) ==
    Get(calls[service_type], datetime_min)

\* Variant: the exception of the fetch leaves the handler.
TryDownload_Reraises(service_type, call_data, outcome) ==
    IF service_type = "user_list" /\ ~call_data.list_id.has
    THEN [fetched |-> FALSE, raised |-> "", escaped |-> "",
          response |-> ErrorReply("list_id parameter is required for user_list download")]
    ELSE IF outcome.raised # ""
    THEN [fetched |-> TRUE, raised |-> outcome.raised, escaped |-> outcome.raised,
          response |-> NoReply]
    ELSE LET items == Get(outcome.data, <<>>)
         IN  IF items # <<>>
             THEN [fetched |-> TRUE, raised |-> "", escaped |-> "",
                   response |-> DataReply(service_type, items)]
             ELSE [fetched |-> TRUE, raised |-> "", escaped |-> "",
                   response |-> ErrorReply("No " \o service_type \o " data available")]

\* Lines 84-126: the try block and its handler.
TryDownload(service_type, call_data, outcome) ==
    IF service_type = "user_list" /\ ~call_data.list_id.has
    THEN [fetched |-> FALSE, raised |-> "", escaped |-> "",
          response |-> ErrorReply("list_id parameter is required for user_list download")]
    ELSE IF outcome.raised # ""
    THEN [fetched |-> TRUE, raised |-> outcome.raised, escaped |-> "",
          response |->
              ErrorReply("Failed to download " \o service_type \o ": " \o outcome.raised)]
    ELSE LET items == Get(outcome.data, <<>>)
         IN  IF call_data.download /\ items # <<>> /\ ~call_data.save_ok
             THEN [fetched |-> TRUE, raised |-> "", escaped |-> "",
                   response |->
                       ErrorReply("Failed to download " \o service_type \o ": OSError")]
             ELSE IF items # <<>>
             THEN [fetched |-> TRUE, raised |-> "", escaped |-> "",
                   response |-> DataReply(service_type, items)]
             ELSE [fetched |-> TRUE, raised |-> "", escaped |-> "",
                   response |-> ErrorReply("No " \o service_type \o " data available")]

_handle_download_service(service_type, call_data, configured, outcome) ==
    LET last_call == LastCall(_last_service_calls, service_type)
        elapsed == now - last_call
        since == IF elapsed < _min_service_interval THEN elapsed ELSE _min_service_interval
        call == [calls |-> 1 - served.calls, service_type |-> service_type,
                 since |-> since, accepted |-> TRUE, fetched |-> FALSE, raised |-> "",
                 escaped |-> "", response |-> NoReply]
    IN  /\ IF elapsed < _min_service_interval
           THEN /\ served' =
                       [call EXCEPT
                           !.accepted = FALSE,
                           !.response =
                               ErrorReply("Service called too frequently. Try again in "
                                   \o OneDecimal(last_call + _min_service_interval - now)
                                   \o " seconds.")]
                /\ UNCHANGED _last_service_calls
           ELSE /\ _last_service_calls' =
                       [_last_service_calls EXCEPT ![service_type] = Some(now)]
                /\ IF ~configured
                   THEN served' =
                            [call EXCEPT
                                !.response = ErrorReply("Discogs integration not configured")]
                   ELSE LET done == TryDownload(service_type, call_data, outcome)
                        IN  served' =
                                [call EXCEPT !.fetched = done.fetched,
                                             !.raised = done.raised,
                                             !.escaped = done.escaped,
                                             !.response = done.response]
        /\ UNCHANGED client_state
        /\ UNCHANGED <<coordinator_data, entry_data, format_arg, formatted>>

\* A download service is called.
ServiceCall ==
    \E service_type \in ServiceTypes, call_data \in CallDatas, configured \in BOOLEAN,
       outcome \in FetchOutcomes :
        _handle_download_service(service_type, call_data, configured, outcome)

(***************************************************************************)
(* A call of _format_string with the argument format_arg.                  *)
(***************************************************************************)
FormatString ==
    /\ ~formatted.done
    /\ formatted' = [done |-> TRUE, value |-> _format_string(format_arg)]
    /\ UNCHANGED client_state
    /\ UNCHANGED <<coordinator_data, entry_data, _last_service_calls, served, format_arg>>

(***************************************************************************)
(* binary_sensor.DiscogsAPIStatusSensor.is_on, and the coordinator putting *)
(* the result of get_api_status into its data.                             *)
(***************************************************************************)
is_on(cd) ==
    LET api_status == Get(cd.api_status, Unavailable(NoStr))
    IN  ~api_status.hello.has

StoreApiStatus(c) ==
    /\ pc[c] = "returned"
    /\ op[c] = "get_api_status"
    /\ coordinator_data.api_status # Some(ret[c][1])
    /\ coordinator_data' = [coordinator_data EXCEPT !.api_status = Some(ret[c][1])]
    /\ UNCHANGED client_state
    /\ UNCHANGED <<entry_data, _last_service_calls, served, format_arg, formatted>>

(***************************************************************************)
(* select.DiscogsRandomRecordFolderSelect.async_select_option.             *)
(***************************************************************************)
\* Variant: the loop has no break, the last folder of that name wins.
SelectedFolderId_Last(folders_data, option) ==
    LET matches == {i \in 1..Len(folders_data) : folders_data[i].name = Some(option)}
    IN  IF matches = {} THEN 0
        ELSE Get(folders_data[CHOOSE i \in matches : \A j \in matches : j <= i].id, 0)

\* Lines 78-83.
SelectedFolderId(folders_data, option) ==
    LET matches == {i \in 1..Len(folders_data) : folders_data[i].name = Some(option)}
    IN  IF matches = {} THEN 0
        ELSE Get(folders_data[CHOOSE i \in matches : \A j \in matches : i <= j].id, 0)

async_select_option(option) ==
    LET folders_data ==
            Get(Get(coordinator_data.user_folders, [folders |-> NoSeq]).folders, <<>>)
        selected_folder_id == SelectedFolderId(folders_data, option)
        new_data ==
            [entry_data EXCEPT !.random_record_folder_selection = Some(option),
                               !.random_record_folder_id = Some(selected_folder_id)]
    IN  /\ coordinator_data' =
               [coordinator_data EXCEPT
                   !.random_record_folder_selection = Some(option),
                   !.random_record_folder_id = Some(selected_folder_id)]
        /\ entry_data' = new_data
        /\ UNCHANGED client_state
        /\ UNCHANGED <<_last_service_calls, served, format_arg, formatted>>

SelectOption == \E option \in Options : async_select_option(option)

(***************************************************************************)
(* Specifications.                                                         *)
(*   SpecSeq:  one sequential caller issuing plain requests, any headers.  *)
(*   SpecConc: two concurrent callers of one client.                       *)
(*   SpecWalk: one caller running pagination walks.                        *)
(*   SpecOps:  one caller running the public operations.                   *)
(*   SpecTwo:  two clients, one caller each.                               *)
(*   SpecProbe, SpecSelect, SpecFormat, SpecServices: the availability     *)
(*             probe and its sensor, the folder select entity,             *)
(*             _format_string, the download services.                      *)
(*   FairSeq, FairWalk: one sequential caller, one walking caller, with    *)
(*             fairness.                                                   *)
(***************************************************************************)
\* The server answers the request in flight with any status, headers and body.
\* The bodies the server can send to the request of caller c.
DocsOf(c) ==
    CASE op[c] = "get_random_record" ->
             IF random_page[c] = 0 THEN FolderDocs ELSE ReleaseDocs(random_page[c])
      [] op[c] = "get_collection_count" -> FolderDocs
      [] OTHER -> RootDocs

BodiesOf(c) ==
    IF op[c] \in WalkOps THEN Bodies(page[c])
    ELSE IF op[c] = "_make_request" THEN PlainBodies
    ELSE [json : {TRUE}, data : DocsOf(c)] \cup {[json |-> FALSE, data |-> EmptyDoc]}

Response(c, headerSet) ==
    \E h \in headerSet, s \in Statuses :
        \E b \in BodiesOf(c) :
            Respond(c, h, s, b)

CallerStep(c, ops, headerSet) ==
    \/ \E o \in ops : Call(c, o)
    \/ WaitForRateLimit(c)
    \/ Sleep(c)
    \/ Stamp(c)
    \/ Response(c, headerSet)
    \/ TransportFail(c)
    \/ Handle429(c)
    \/ Finish(c)

NextSeq == Tick \/ CallerStep(1, {"_make_request"}, AllHeaders)
SpecSeq == Init /\ [][NextSeq]_vars

NextConc == Tick \/ \E c \in Callers : CallerStep(c, {"_make_request"}, {NoHeaders})
SpecConc == Init /\ [][NextConc]_vars

\* The headers of the responses to the public operations: none, or a used
\* count that is not a number.
OpsHeaders == {NoHeaders, [NoHeaders EXCEPT !.used = Some("abc")]}

NextOps == Tick \/ CallerStep(1, PublicOps, OpsHeaders)
SpecOps == Init /\ [][NextOps]_vars

\* Two clients, each with its own caller.
NextTwo == Tick \/ \E c \in Callers : CallerStep(c, {"_make_request"}, {NoHeaders})
SpecTwo == InitTwo /\ [][NextTwo]_vars

\* The availability probe and the storing of its result.
NextProbe ==
    Tick \/ CallerStep(1, {"get_api_status"}, {NoHeaders}) \/ StoreApiStatus(1)
SpecProbe == Init /\ [][NextProbe]_vars

\* The folder select entity over any folder listing.
InitSelect ==
    /\ Constructed([c \in Callers |-> 1])
    /\ \E user_folders \in UserFolders : Installed(user_folders, EmptyBasic)
NextSelect == SelectOption
SpecSelect == InitSelect /\ [][NextSelect]_vars

\* _format_string over any argument.
InitFormat ==
    /\ Constructed([c \in Callers |-> 1])
    /\ \E rd \in RecordDatas : Installed(NoFolders, rd)
NextFormat == FormatString
SpecFormat == InitFormat /\ [][NextFormat]_vars

\* The download services, called at any time.
NextServices == Tick \/ ServiceCall
SpecServices == Init /\ [][NextServices]_vars

NextWalk == Tick \/ CallerStep(1, WalkOps, {NoHeaders})
SpecWalk == Init /\ [][NextWalk]_vars

\* Time passes, and a caller that can step does: a
\* request ends in a response or, after at most the 30 s timeout, in a failure.
FairWalk ==
    /\ Init /\ [][NextWalk]_vars
    /\ WF_vars(Tick)
    /\ WF_vars(CallerStep(1, WalkOps, {NoHeaders}))

\* One sequential caller whose responses carry no rate-limit headers or
\* report an exhausted quota.  Time passes, and a caller that can step does.
QuotaHeaders ==
    {NoHeaders, [total |-> Some("60"), used |-> Some("60"), remaining |-> Some("0")]}

NextQuota == Tick \/ CallerStep(1, {"_make_request"}, QuotaHeaders)
FairSeq ==
    /\ Init /\ [][NextQuota]_vars
    /\ WF_vars(Tick)
    /\ WF_vars(CallerStep(1, {"_make_request"}, QuotaHeaders))

(***************************************************************************)
(* Properties.                                                             *)
(***************************************************************************)
SameClient(c, d) == c # d /\ client[c] = client[d]
Started(c) == pc[c] \in {"get", "http429", "returned", "raised"}
Abs(n) == IF n < 0 THEN -n ELSE n
Garbled(h) ==
    \E f \in {h.total, h.used, h.remaining} : f.has /\ ~IsDecimal(f.val)
Missing(h) ==
    \E f \in {h.total, h.used, h.remaining} : ~f.has
Info(c) == rate_limit_info[client[c]]

\* The step is caller c receiving a response (resp'[c]).
Receives(c) == pc[c] = "get" /\ resp'[c].status \in Statuses

\* C1: with one sequential caller, the start time a request records is at
\* least _min_request_interval after the start time recorded before it,
\* whatever the outcome of the earlier requests.
C1_MinimumSpacing ==
    [][\A c \in Callers :
          (pc[c] = "stamp" /\ pc'[c] = "get") =>
              _last_request_time'[client[c]] - _last_request_time[client[c]]
                  >= _min_request_interval]_vars

\* A second request that slept before it recorded its start.
C1_Witness ==
    /\ pc[1] = "get"
    /\ wait_time[1] > 0
    /\ start[1] >= 2 * _min_request_interval

\* C2: two callers of one client never have recorded start times less than
\* _min_request_interval apart.
C2_SerializedLimiter ==
    \A c, d \in Callers :
        (SameClient(c, d) /\ Started(c) /\ Started(d) /\ start[c] > 0 /\ start[d] > 0) =>
            Abs(start[c] - start[d]) >= _min_request_interval

\* C3: at most one GET of a client is in flight.
C3_OneInFlight ==
    \A c, d \in Callers : SameClient(c, d) => ~(pc[c] = "get" /\ pc[d] = "get")

\* C4: every pagination walk ends (returns or raises), whatever the server
\* answers.
C4_WalkTerminates ==
    \A c \in Callers :
        (pc[c] = "wait" /\ op[c] \in WalkOps) ~> (pc[c] \in {"returned", "raised"})

\* The entries one page contributes: one per item, in the page's order.
EntryOf(o, item) ==
    IF o = "get_user_list_items"
    THEN item
    ELSE IF item.basic_information.has THEN item.basic_information.val ELSE EmptyDict

ItemsOf(data) == IF data.items.has THEN data.items.val ELSE <<>>

RECURSIVE EntriesOfPages(_, _)
EntriesOfPages(o, pages) ==
    IF pages = <<>>
    THEN <<>>
    ELSE LET n == Len(pages)
             items == ItemsOf(pages[n])
         IN  EntriesOfPages(o, SubSeq(pages, 1, n - 1))
                 \o [i \in 1..Len(items) |-> EntryOf(o, items[i])]

RECURSIVE CountOfPages(_)
CountOfPages(pages) ==
    IF pages = <<>>
    THEN 0
    ELSE CountOfPages(Tail(pages)) + Len(ItemsOf(Head(pages)))

\* C5: a walk that returns (within MaxPage pages) delivers one entry per item
\* of every page it visited, in page order and in within-page order.
C5_OneEntryPerItem ==
    \A c \in Callers :
        (pc[c] = "returned" /\ op[c] \in WalkOps /\ ~Beyond(c)) =>
            /\ ret[c] = EntriesOfPages(op[c], seen[c])
            /\ Len(ret[c]) = CountOfPages(seen[c])

\* A walk that returned the items of two pages, three items or more.
C5_Witness ==
    /\ pc[1] = "returned"
    /\ op[1] = "_paginated_fetch"
    /\ Len(seen[1]) >= 2
    /\ Len(ret[1]) >= 3

\* The stop condition of the claim: the page is absent, has no items, or its
\* number is >= its declared pages (1 when missing).
AbsentOrEmpty(data) == ~Truthy(data) \/ ItemsOf(data) = <<>>
LastPage(data, number) ==
    AbsentOrEmpty(data) \/ number >= (IF data.pages.has THEN data.pages.val ELSE 1)

\* C6: a walk requests pages 1, 2, ... (up to MaxPage) with per_page 100,
\* issues no request after the first page that meets the stop condition, and
\* an absent or empty page ends it, without an error, with the items gathered
\* before it.
C6_ConsecutivePages ==
    \A c \in Callers :
        (op[c] \in WalkOps /\ ~Beyond(c)) =>
            /\ \A i \in 1..Len(log[c]) : log[c][i] = [page |-> i, per_page |-> 100]
            /\ Len(seen[c]) <= Len(log[c])
            /\ \A i \in 1..Len(seen[c]) :
                   LastPage(seen[c][i], i) =>
                       /\ i = Len(seen[c])
                       /\ Len(log[c]) = i
                       /\ pc[c] = "returned"
                       /\ error[c] = ""
                       /\ AbsentOrEmpty(seen[c][i]) =>
                              ret[c] = EntriesOfPages(op[c], SubSeq(seen[c], 1, i - 1))
            /\ pc[c] = "returned" =>
                   /\ seen[c] # <<>>
                   /\ LastPage(seen[c][Len(seen[c])], Len(seen[c]))

\* A walk ended by an empty second page that returned the first page's items.
C6_Witness ==
    /\ pc[1] = "returned"
    /\ op[1] \in WalkOps
    /\ Len(log[1]) = 2
    /\ Len(seen[1]) = 2
    /\ AbsentOrEmpty(seen[1][2])
    /\ ret[1] # <<>>

\* C7: when the error of a 429 reaches the caller, exceeded is true and
\* remaining is 0; a successful response whose rate-limit headers parse sets
\* exceeded to false.
C7_ExceededOn429 ==
    \A c \in Callers :
        /\ (pc[c] = "raised" /\ resp[c].status = 429) =>
               (Info(c).exceeded /\ Info(c).remaining = 0)
        /\ (pc[c] \in {"returned", "raised"} /\ resp[c].status = 200
               /\ ~Garbled(resp[c].headers)) =>
               ~Info(c).exceeded

\* A 429 whose headers reported 60 remaining, its error raised to the caller.
C7_Witness ==
    /\ pc[1] = "raised"
    /\ resp[1].status = 429
    /\ resp[1].headers.remaining = Some("60")
    /\ Info(1).exceeded
    /\ Info(1).remaining = 0

\* C8 as stated: a response with a missing or garbled rate-limit header
\* leaves rate_limit_info unchanged.
C8_MissingOrGarbledKeeps ==
    [][\A c \in Callers :
          (Receives(c) /\ (Missing(resp'[c].headers) \/ Garbled(resp'[c].headers))) =>
              rate_limit_info' = rate_limit_info]_vars

\* C8 amended: a garbled header leaves rate_limit_info unchanged through the
\* header update, last_updated included; without a garbled header a missing
\* one is read as its default (60, 0, 60) and the update is applied.
C8_GarbledKeepsMissingDefaults ==
    [][\A c \in Callers :
          Receives(c) =>
              LET h == resp'[c].headers
              IN  IF Garbled(h)
                  THEN rate_limit_info' = rate_limit_info
                  ELSE rate_limit_info'[client[c]] =
                           [total |-> IF h.total.has THEN int(h.total.val) ELSE 60,
                            used |-> IF h.used.has THEN int(h.used.val) ELSE 0,
                            remaining |->
                                IF h.remaining.has THEN int(h.remaining.val) ELSE 60,
                            last_updated |-> Some(now),
                            exceeded |-> (resp'[c].status = 429)]]_vars

\* A successful response with a garbled header that left an earlier
\* last_updated in place.
C8_Witness ==
    /\ pc[1] = "returned"
    /\ resp[1].status = 200
    /\ Garbled(resp[1].headers)
    /\ Info(1).last_updated.has
    /\ Info(1).last_updated.val < start[1]

\* C9: a response with a non-numeric rate-limit header changes no field of
\* rate_limit_info and raises nothing of its own: the call returns, or raises
\* the error of its status or of its body.
C9_NoPartialUpdate ==
    [][\A c \in Callers :
          (Receives(c) /\ Garbled(resp'[c].headers)) =>
              LET s == resp'[c].status
              IN  /\ \A f \in {"total", "used", "remaining", "exceeded", "last_updated"} :
                         rate_limit_info'[client[c]][f] = rate_limit_info[client[c]][f]
                  /\ s = 200 =>
                         \/ pc'[c] = "returned" /\ error'[c] = ""
                         \/ pc'[c] = "raised" /\ error'[c] = "JSONDecodeError"
                  /\ s = 429 => pc'[c] = "http429"
                  /\ s = 500 => (pc'[c] = "raised" /\ error'[c] = "HTTPError")]_vars

\* A response whose used header alone is garbled, the other two numeric and
\* different from the recorded values, returned to the caller.
C9_Witness ==
    /\ pc[1] = "returned"
    /\ resp[1].status = 200
    /\ resp[1].headers = [total |-> Some("0"), used |-> Some("abc"), remaining |-> Some("0")]
    /\ Info(1).total = 60
    /\ Info(1).remaining = 60

\* C10: remaining = total - used in every state.
C10_RemainingIsTotalMinusUsed ==
    \A k \in Clients :
        rate_limit_info[k].remaining = rate_limit_info[k].total - rate_limit_info[k].used

\* C11: in every state of rate_limit_info, the one between the header update
\* and the 429 handler included, exceeded implies remaining = 0.
C11_ExceededImpliesNoneRemaining ==
    \A k \in Clients :
        rate_limit_info[k].exceeded => rate_limit_info[k].remaining = 0

\* The folder probe of a get_random_record call, once answered.
Probe(c) == seen[c][1]
Probed(c) == op[c] = "get_random_record" /\ Len(seen[c]) >= 1

\* C12: when the folder probe reports count 0 or no count, get_random_record
\* returns none and has sent one request only.
C12_EmptyFolderOneRequest ==
    \A c \in Callers :
        (Probed(c) /\ (~Probe(c).count.has \/ Probe(c).count.val = 0)) =>
            /\ pc[c] = "returned"
            /\ ret[c] = None
            /\ error[c] = ""
            /\ Len(log[c]) = 1
            /\ Len(seen[c]) = 1

\* A probe that answered with a document without a count.
C12_Witness ==
    /\ Probed(1)
    /\ pc[1] = "returned"
    /\ Probe(1).other
    /\ ~Probe(1).count.has

\* C13: when the folder probe reports a count >= 1, the call requests one
\* page p with 1 <= p <= ceil(count / 100) and per_page 100: the probe and
\* that page are its two requests.
C13_OnePageWithinCount ==
    \A c \in Callers :
        (Probed(c) /\ Probe(c).count.has /\ Probe(c).count.val >= 1) =>
            /\ 1 <= random_page[c]
            /\ (random_page[c] - 1) * 100 < Probe(c).count.val
            /\ Len(log[c]) <= 2
            /\ log[c][1] = [page |-> 0, per_page |-> 0]
            /\ Len(log[c]) = 2 => log[c][2] = [page |-> random_page[c], per_page |-> 100]
            /\ Started(c) => Len(log[c]) = 2

\* A folder of 250 items whose third page was requested and answered.
C13_Witness ==
    /\ Probed(1)
    /\ Probe(1).count = Some(250)
    /\ random_page[1] = 3
    /\ pc[1] = "returned"
    /\ Len(log[1]) = 2

\* C14: a record get_random_record returns is the record built of one of the
\* releases of the page fetched in that call; when that page is absent or has
\* no releases the call returns none and raises nothing.
C14_RecordFromFetchedPage ==
    \A c \in Callers :
        (op[c] = "get_random_record" /\ pc[c] = "returned" /\ Len(seen[c]) = 2) =>
            LET fetched == seen[c][2]
                releases == IF fetched.releases.has THEN fetched.releases.val ELSE <<>>
            IN  /\ error[c] = ""
                /\ IF releases = <<>>
                   THEN ret[c] = None
                   ELSE \E i \in 1..Len(releases) : ret[c] = <<FormatRecord(releases[i])>>

\* The record of the first release of page 1.
C14_Witness ==
    /\ op[1] = "get_random_record"
    /\ pc[1] = "returned"
    /\ random_page[1] = 1
    /\ ret[1] # None
    /\ ret[1][1].title = "Miles Davis - Kind of Blue"
    /\ ret[1][1].data.format = Some("Vinyl (LP, Album)")

\* C15: a call of _make_request sends one GET, whatever its outcome: a 429,
\* another HTTP error, a transport failure or an unparseable body is raised to
\* the caller and no second GET follows.
C15_OneGetNoRetry ==
    \A c \in Callers :
        op[c] = "_make_request" =>
            /\ Len(log[c]) = (IF Started(c) THEN 1 ELSE 0)
            /\ pc[c] \in {"returned", "raised"} =>
                   /\ resp[c].status \in {429, 500} =>
                          (pc[c] = "raised" /\ error[c] = "HTTPError")
                   /\ resp[c] = NoResponse =>
                          (pc[c] = "raised" /\ error[c] = "ConnectionError")
                   /\ (resp[c].status = 200 /\ ~resp[c].json) =>
                          (pc[c] = "raised" /\ error[c] = "JSONDecodeError")
                   /\ pc[c] = "returned" => (resp[c].status = 200 /\ resp[c].json)

\* An unparseable body raised to the caller after one GET.
C15_Witness ==
    /\ op[1] = "_make_request"
    /\ pc[1] = "raised"
    /\ error[1] = "JSONDecodeError"
    /\ Len(log[1]) = 1

\* The step is a request of caller c failing: the 429 handler ends, or
\* requests.get raises, or the response is an HTTP error or has a body that
\* does not parse.
Fails(c) ==
    \/ pc[c] = "http429" /\ pc'[c] # "http429"
    \/ /\ pc[c] = "get"
       /\ pc'[c] # "get"
       /\ \/ resp'[c] = NoResponse
          \/ resp'[c].status = 500
          \/ resp'[c].status = 200 /\ ~resp'[c].json

\* The exception of the failure of that step.
FailureOf(c) ==
    IF pc[c] = "http429" \/ resp'[c].status = 500 THEN "HTTPError"
    ELSE IF resp'[c] = NoResponse THEN "ConnectionError"
    ELSE "JSONDecodeError"

\* C16 as stated: in every public operation a failed request raises its error
\* to the operation's caller.
C16_EveryFailurePropagates ==
    [][\A c \in Callers :
          Fails(c) => (pc'[c] = "raised" /\ error'[c] = FailureOf(c))]_vars

\* C16 amended: in every public operation but get_api_status a failed request
\* raises its error to the operation's caller; get_api_status catches it and
\* returns the unavailable status carrying the error.  A header that does not
\* parse raises nothing: an operation raises only when a request failed.
C16_FailurePropagatesButStatusProbe ==
    [][\A c \in Callers :
          /\ Fails(c) =>
                 IF op[c] = "get_api_status"
                 THEN /\ pc'[c] = "returned"
                      /\ error'[c] = ""
                      /\ ret'[c] = <<[available |-> FALSE, hello |-> NoStr,
                                      api_version |-> NoStr, documentation_url |-> NoStr,
                                      statistics |-> NoDict,
                                      error |-> Some(FailureOf(c))]>>
                 ELSE pc'[c] = "raised" /\ error'[c] = FailureOf(c)
          /\ (pc[c] # "raised" /\ pc'[c] = "raised") => Fails(c)
          /\ (Receives(c) /\ Garbled(resp'[c].headers) /\ resp'[c].status = 200
                 /\ resp'[c].json) =>
                 (pc'[c] \in {"wait", "returned"} /\ error'[c] = "")]_vars

\* A transport failure of the status probe, returned as the unavailable status.
C16_Witness ==
    /\ op[1] = "get_api_status"
    /\ pc[1] = "returned"
    /\ resp[1] = NoResponse
    /\ ret[1][1].error = Some("ConnectionError")

\* The callers of client k that receive a response in the step.
Receivers(k) == {c \in Callers : client[c] = k /\ Receives(c)}

\* C17 as stated: once exceeded is true it stays true through every step but
\* the receipt of a 2xx response.
C17_ExceededUntilSuccess ==
    [][\A k \in Clients :
          (rate_limit_info[k].exceeded
              /\ ~(\E c \in Receivers(k) : resp'[c].status = 200)) =>
              rate_limit_info'[k].exceeded]_vars

\* C17 amended: once exceeded is true it stays true through a transport
\* failure and through a response with a rate-limit header that does not
\* parse; a response whose headers parse sets it to (status = 429), clearing it
\* on a 2xx and on another HTTP error alike.
C17_ExceededUntilParsedNon429 ==
    [][\A k \in Clients :
          rate_limit_info[k].exceeded =>
              IF \E c \in Receivers(k) : ~Garbled(resp'[c].headers)
              THEN \E c \in Receivers(k) :
                       rate_limit_info'[k].exceeded = (resp'[c].status = 429)
              ELSE rate_limit_info'[k].exceeded]_vars

\* An HTTP error with a garbled header, raised with exceeded still true.
C17_Witness ==
    /\ pc[1] = "raised"
    /\ resp[1].status = 500
    /\ Garbled(resp[1].headers)
    /\ Info(1).exceeded

\* C18: the limiter decides by the time since the last request alone: a call
\* that waits can step whatever the quota state, it sleeps for no more than
\* _min_request_interval and then records its start and sends its GET; and
\* exceeded turns true only in the receipt of a 429 or in its handler.
C18_NeverWithholds ==
    /\ [](\A c \in Callers :
             /\ pc[c] = "wait" => ENABLED WaitForRateLimit(c)
             /\ pc[c] = "sleep" =>
                    /\ wait_time[c] <= _min_request_interval
                    /\ now >= current_time[c] + wait_time[c] => ENABLED Sleep(c)
             /\ pc[c] = "stamp" => ENABLED Stamp(c))
    /\ [][\A k \in Clients :
             (~rate_limit_info[k].exceeded /\ rate_limit_info'[k].exceeded) =>
                 \/ \E c \in Receivers(k) : resp'[c].status = 429
                 \/ \E c \in Callers :
                        client[c] = k /\ pc[c] = "http429" /\ resp[c].status = 429]_vars

\* A request in flight while the quota is recorded as exceeded.
C18_Witness ==
    /\ pc[1] = "get"
    /\ Info(1).exceeded
    /\ Info(1).remaining = 0
    /\ Len(log[1]) = 1

\* C19: a step of a caller changes neither _last_request_time nor
\* rate_limit_info of a client other than its own.
C19_InstancesIsolated ==
    [][\A c \in Callers :
          pc'[c] # pc[c] =>
              \A k \in Clients \ {client[c]} :
                  /\ _last_request_time'[k] = _last_request_time[k]
                  /\ rate_limit_info'[k] = rate_limit_info[k]]_vars

\* Client 1 exceeded, client 2 updated by a response of its own and not
\* exceeded, each with a different time of its last request.
C19_Witness ==
    /\ client[1] = 1 /\ client[2] = 2
    /\ rate_limit_info[1].exceeded
    /\ rate_limit_info[2].last_updated.has
    /\ ~rate_limit_info[2].exceeded
    /\ _last_request_time[1] # _last_request_time[2]
    /\ _last_request_time[2] > 0

\* C20: a call of _make_request sleeps at most once and for no more than
\* _min_request_interval, records its start as the time of the last request,
\* and always comes to send its GET.
C20_ForwardProgress ==
    /\ [](\A c \in Callers : wait_time[c] <= _min_request_interval)
    /\ [][\A c \in Callers :
             /\ pc'[c] = "sleep" => pc[c] \in {"wait", "sleep"}
             /\ pc[c] = "sleep" => pc'[c] \in {"sleep", "stamp"}
             /\ (pc[c] = "stamp" /\ pc'[c] # "stamp") =>
                    /\ pc'[c] = "get"
                    /\ _last_request_time'[client[c]] = now
                    /\ Len(log'[c]) = Len(log[c]) + 1]_vars
    /\ \A c \in Callers : (pc[c] = "wait") ~> (pc[c] = "get")

\* A request sent after a sleep, with the quota recorded as exceeded.
C20_Witness ==
    /\ pc[1] = "get"
    /\ wait_time[1] = _min_request_interval
    /\ Info(1).exceeded
    /\ _last_request_time[1] = start[1]

\* The step is the handling of a download service call.
Serves == served'.calls # served.calls

\* C21: a download service call whose bulk fetch raises returns a response
\* with an error entry and no data; no exception leaves the handler, whatever
\* the fetch did.
C21_FetchFailureReturnsError ==
    /\ served.escaped = ""
    /\ (served.fetched /\ served.raised # "") =>
           /\ served.response.error =
                  Some("Failed to download " \o served.service_type \o ": "
                           \o served.raised)
           /\ ~served.response.data.has
           /\ served.response.key = ""

\* A wantlist download whose fetch ended in a connection error.
C21_Witness ==
    /\ served.service_type = "wantlist"
    /\ served.fetched
    /\ served.raised = "ConnectionError"
    /\ served.response.error = Some("Failed to download wantlist: ConnectionError")

\* The probe of caller c got a 200 response whose body parsed, is truthy and
\* has a hello value that is not empty.
Greeted(c) ==
    /\ resp[c].status = 200
    /\ resp[c].json
    /\ Len(seen[c]) = 1
    /\ TruthyDoc(seen[c][1])
    /\ seen[c][1].hello.has
    /\ seen[c][1].hello.val # ""

C23_FormatOfFirstEntry ==
    formatted.done =>
        LET formats == format_arg.formats
        IN  /\ formatted.value # Some("")
            /\ IF ~formats.has \/ formats.val = <<>>
               THEN formatted.value = NoStr
               ELSE LET name == formats.val[1].name
                        tags == formats.val[1].descriptions
                    IN  IF ~name.has \/ name.val = ""
                        THEN formatted.value = NoStr
                        ELSE IF tags = Some(<<"LP">>)
                        THEN formatted.value = Some(name.val \o " (LP)")
                        ELSE IF tags = Some(<<"LP", "Album">>)
                        THEN formatted.value = Some(name.val \o " (LP, Album)")
                        ELSE formatted.value = name

\* A two-entry list rendered from its first entry, tags joined.
C23_Witness ==
    /\ formatted.done
    /\ format_arg.formats.has
    /\ Len(format_arg.formats.val) = 2
    /\ format_arg.formats.val[1] =
           [name |-> Some("Vinyl"), descriptions |-> Some(<<"LP", "Album">>)]
    /\ format_arg.formats.val[2].name = Some("CD")
    /\ formatted.value = Some("Vinyl (LP, Album)")

\* C24: when the request of a page of a walk fails, the walk raises that
\* failure, returns nothing of the pages before, and requests no later page.
C24_WalkFailureNoPartial ==
    /\ [](\A c \in Callers :
             (op[c] \in WalkOps /\ pc[c] = "raised") =>
                 /\ ret[c] = <<>>
                 /\ error[c] # ""
                 /\ ~Beyond(c) => Len(log[c]) = Len(seen[c]) + 1)
    /\ [][\A c \in Callers :
             op[c] \in WalkOps =>
                 /\ Fails(c) =>
                        /\ pc'[c] = "raised"
                        /\ error'[c] = FailureOf(c)
                        /\ ret'[c] = <<>>
                 /\ pc[c] = "raised" =>
                        /\ pc'[c] \in {"raised", "idle"}
                        /\ log'[c] \in {log[c], <<>>}]_vars

\* The second page of a walk failed after the first gave items.
C24_Witness ==
    /\ op[1] \in WalkOps
    /\ pc[1] = "raised"
    /\ Len(log[1]) = 2
    /\ all_items[1] # <<>>
    /\ ret[1] = <<>>

\* The step is a transport failure of the request of caller c.
TransportFails(c) == pc[c] = "get" /\ pc'[c] # "get" /\ resp'[c] = NoResponse

\* C25: rate_limit_info changes only by a received response (its headers, or
\* the handler of its 429): a transport failure leaves the five fields as they
\* were, while _last_request_time holds the start of the failed request.
C25_InfoChangesOnlyOnResponse ==
    /\ [][\A c \in Callers :
             /\ (pc'[c] # pc[c] /\ ~Receives(c) /\ pc[c] # "http429") =>
                    rate_limit_info' = rate_limit_info
             /\ (pc[c] = "stamp" /\ pc'[c] = "get") =>
                    /\ _last_request_time'[client[c]] = now
                    /\ start'[c] = now
             /\ TransportFails(c) =>
                    /\ Info(c)' = Info(c)
                    /\ _last_request_time' = _last_request_time
                    /\ _last_request_time[client[c]] = start[c]
                    /\ pc'[c] = "raised"]_vars
    /\ [](\A c \in Callers :
             (pc[c] = "raised" /\ error[c] = "ConnectionError") =>
                 _last_request_time[client[c]] = start[c])

\* A transport failure after an earlier response was recorded: the record
\* still holds the earlier values and the last request time the later start.
C25_Witness ==
    /\ pc[1] = "raised"
    /\ error[1] = "ConnectionError"
    /\ Info(1).last_updated.has
    /\ Info(1).used # 0
    /\ Info(1).last_updated.val < start[1]
    /\ _last_request_time[1] = start[1]

\* C26: a download service call is accepted exactly when the last accepted
\* call of its type is at least _min_service_interval old, so accepted calls
\* of one type are that far apart; a call that comes earlier is answered with
\* an error, fetches nothing and leaves the recorded times as they were; the
\* times of the other types play no part and are left alone.
C26_ServiceThrottle ==
    /\ [](served.service_type # "" =>
             /\ served.accepted = (served.since >= _min_service_interval)
             /\ ~served.accepted =>
                    /\ served.response.error.has
                    /\ ~served.response.data.has
                    /\ ~served.fetched)
    /\ [][Serves =>
             LET t == served'.service_type
                 last == _last_service_calls[t]
             IN  /\ served'.accepted =
                        (~last.has \/ now - last.val >= _min_service_interval)
                 /\ \A u \in ServiceTypes \ {t} :
                        _last_service_calls'[u] = _last_service_calls[u]
                 /\ IF served'.accepted
                    THEN _last_service_calls'[t] = Some(now)
                    ELSE _last_service_calls' = _last_service_calls]_vars

\* A wantlist call rejected as too early, in the tick of the accepted one,
\* while no collection call was ever made.
C26_Witness ==
    /\ served.service_type = "wantlist"
    /\ ~served.accepted
    /\ ~served.fetched
    /\ served.response.error.has
    /\ now > 0
    /\ _last_service_calls["wantlist"] = Some(now)
    /\ _last_service_calls["collection"] = NoInt

\* The folders of the listing in coordinator_data.
Listing == Get(Get(coordinator_data.user_folders, [folders |-> NoSeq]).folders, <<>>)

\* C27: after any calls of async_select_option, the folder id in the
\* coordinator data is the id (0 when it has none) of the first folder of the
\* listing whose name is the selected option, or 0 when no folder has that
\* name; the config entry holds the same selection and the same id.
C27_SelectedFolderIsFirstMatch ==
    coordinator_data.random_record_folder_selection.has =>
        LET option == coordinator_data.random_record_folder_selection.val
            id == coordinator_data.random_record_folder_id
        IN  /\ id.has
            /\ \/ /\ \A i \in 1..Len(Listing) : Listing[i].name # Some(option)
                  /\ id.val = 0
               \/ \E i \in 1..Len(Listing) :
                      /\ Listing[i].name = Some(option)
                      /\ \A j \in 1..(i - 1) : Listing[j].name # Some(option)
                      /\ id.val = (IF Listing[i].id.has THEN Listing[i].id.val ELSE 0)
            /\ entry_data.random_record_folder_selection = Some(option)
            /\ entry_data.random_record_folder_id = id

\* Two folders named Jazz: the first one's id is stored, in both places.
C27_Witness ==
    /\ Len(Listing) = 2
    /\ Listing[1].name = Some("Jazz") /\ Listing[1].id = Some(1)
    /\ Listing[2].name = Some("Jazz") /\ Listing[2].id = Some(2)
    /\ coordinator_data.random_record_folder_selection = Some("Jazz")
    /\ coordinator_data.random_record_folder_id = Some(1)
    /\ entry_data.random_record_folder_id = Some(1)

====
